---- MODULE Spec2Model ----
(***************************************************************************)
(* Model of the bulk-download and archive packaging job of the manga bot:  *)
(* src/tbot.py, download_action (which queues a job) and archive_worker    *)
(* (the job: page plan, sequential fetch, size-bounded packing, upload,    *)
(* cleanup).  One job is a coroutine of the bot's event loop: it gives up  *)
(* the loop only at an await (every context.bot call); the code between    *)
(* two awaits, the blocking tally of MangaAPI included, runs alone.        *)
(*                                                                         *)
(* Strings are sequences of one-character strings, so that sanitising a    *)
(* title, testing a prefix and formatting a number are computed as the     *)
(* code computes them.                                                     *)
(***************************************************************************)
EXTENDS Integers, Sequences, FiniteSets, TLC

\* ------------------------------------------------------------- bounds
\* Most pages the chapter of a single-chapter job may have (the remote API
\* decides the count).
MaxPages == 5
\* Most pages the plan of a download-all job may total.
MaxPagesAll == 3
\* Most chapters a download-all job is given.
MaxChapters == 2
\* Most containers one job may open (the packing loop need not end).
MaxParts == 5
\* Most pages the plan of a job totals when two jobs run side by side.
MaxPagesTwo == 1
\* Most containers one job may open when two jobs run side by side.
MaxPartsTwo == 2

\* ------------------------------------------------------------ strings
DigitChar == <<"0", "1", "2", "3", "4", "5", "6", "7", "8", "9">>

\* The characters of the model's titles for which str.isalnum() is true.
IsAlnum(c) == c \in {"A", "B", "C", "h"} \cup {DigitChar[k] : k \in 1..10}

\* str(n) / f"{n}" of a non-negative integer.
RECURSIVE Str(_)
Str(n) == IF n < 10 THEN <<DigitChar[n + 1]>>
          ELSE Str(n \div 10) \o <<DigitChar[(n % 10) + 1]>>

\* f"{n:04d}": zero-padded to at least four digits.
Pad4(n) == LET s == Str(n)
           IN  IF Len(s) >= 4 THEN s
               ELSE [k \in 1..(4 - Len(s)) |-> "0"] \o s

\* str.rstrip(): after the filter of line 186 the only whitespace is " ".
RECURSIVE RStrip(_)
RStrip(s) == IF s # <<>> /\ s[Len(s)] = " " THEN RStrip(SubSeq(s, 1, Len(s) - 1))
             ELSE s

\* sub in s
Contains(s, sub) ==
    \E k \in 1..(Len(s) - Len(sub) + 1) : SubSeq(s, k, k + Len(sub) - 1) = sub

\* f.startswith(p)
StartsWith(f, p) == Len(p) <= Len(f) /\ SubSeq(f, 1, Len(p)) = p

\* f.endswith(p)
EndsWith(f, p) == Len(p) <= Len(f) /\ SubSeq(f, Len(f) - Len(p) + 1, Len(f)) = p

KeepChar(c) == IsAlnum(c) \/ c \in {" ", "_"}

\* line 186: "".join(c for c in archive_title if c.isalnum() or c in (' ', '_')).rstrip()
SafeTitle(archive_title) == RStrip(SelectSeq(archive_title, KeepChar))

ChMark == <<"_", "C", "h", "_">>

\* line 185: "_Ch_" in archive_title
IsSingleChapterDownload(archive_title) == Contains(archive_title, ChMark)

\* lines 167 and 173: the archive title download_action hands to the job.
ArchiveTitle(dl_all, title, chap) ==
    IF dl_all THEN title ELSE title \o ChMark \o chap

\* lines 246-247: the container's file name for part_num.
PartSuffix(part_num) == <<"_", "P", "a", "r", "t", "_">> \o Str(part_num)

CbzExt == <<".", "c", "b", "z">>

CbzFilename(safe_title, is_single, part_num) ==
    (IF ~is_single THEN safe_title \o PartSuffix(part_num) ELSE safe_title) \o CbzExt

\* line 231: the scratch file name of a global page index.
ImgName(index) == Pad4(index) \o <<".", "j", "p", "g">>

\* ------------------------------------------------------------- sizes
SAFE_LIMIT == 48 * 1024 * 1024

\* A page just under half the ceiling, and one that alone exceeds it.
HalfPage == (SAFE_LIMIT \div 2) - 1024
OverPage == SAFE_LIMIT + 1
PageSizes == {HalfPage, OverPage}

\* zipfile, ZIP_STORED: a local header of 30 bytes and the name go before each
\* file's bytes; closing adds a central record of 46 bytes and the name per
\* file and an end record of 22 bytes.
RECURSIVE SumLocal(_)
SumLocal(entries) ==
    IF entries = <<>> THEN 0
    ELSE 30 + Len(entries[1].arcname) + entries[1].data.size + SumLocal(Tail(entries))

RECURSIVE SumCentral(_)
SumCentral(entries) ==
    IF entries = <<>> THEN 0
    ELSE 46 + Len(entries[1].arcname) + SumCentral(Tail(entries))

\* line 260: os.path.getsize(cbz_filename) while the archive is still open.
GetSizeOpen(entries) == SumLocal(entries)

\* The size of the archive once `with zipfile.ZipFile(...)` has closed it.
GetSizeClosed(entries) == SumLocal(entries) + SumCentral(entries) + 22

\* -------------------------------------------------------------- state
Jobs == {1, 2}
ChatIds == {1, 2}

VARIABLES
    job,        \* context.job of each job: chat_id, data (lines 176, 181-183)
    pc,         \* where each job's coroutine stands
    cur,        \* the job that holds the event loop (0: the loop is free)
    actor,      \* the job that took the last step (0: none yet)
    w,          \* the local variables of archive_worker, per job
    temp,       \* the scratch directories ./temp_<chat_id> on disk
    cbz,        \* the container files of the working directory
    status,     \* per job: the texts its status message has shown, in order
    notices,    \* per job: the messages sent with send_message, in order
    documents,  \* per job: the documents send_document delivered, in order
    sealed,     \* per job: the containers its packing loop closed, in order
    tally       \* per job: the remote tally made so far

vars == <<job, pc, cur, actor, w, temp, cbz, status, notices, documents, sealed, tally>>

NoDir == [exists |-> FALSE, files |-> <<>>]
EmptyDir == [exists |-> TRUE, files |-> <<>>]

\* The locals of archive_worker before the coroutine has run.
NoLocals ==
    [is_single_chapter_download |-> FALSE,
     safe_title |-> <<>>,
     chapter_page_counts |-> <<>>,
     total_pages_for_all_chapters |-> 0,
     downloaded_page_paths |-> <<>>,
     current_page_global_index |-> 0,
     i |-> 0,
     page_num_in_chapter |-> 0,
     part_num |-> 0,
     page_index |-> 0,
     pages_in_current_part |-> 0,
     cbz_filename |-> <<>>,
     cbz_file |-> <<>>,
     exit |-> "none",
     e |-> "none"]

\* Titles the remote search may return, and the chapter number of a chapter.
MangaTitles == {<<"A", "!", " ">>, <<"A", "_", "C", "h", "_", "B">>}
ChapLabels == {<<"1", ".", "5">>}

\* download_action, lines 159-177: the job it queues.  Download-all hands over
\* the whole chapter list under the manga's title; a single chapter is handed
\* over under <title>_Ch_<chap>.
DownloadAction(chat, msg, dl_all, title, chap, n) ==
    [active |-> TRUE, chat_id |-> chat, message_id |-> msg, dl_all |-> dl_all,
     archive_title |-> ArchiveTitle(dl_all, title, chap),
     nchapters |-> IF dl_all THEN n ELSE 1]

NoJob == [active |-> FALSE, chat_id |-> 0, message_id |-> 0, dl_all |-> FALSE,
          archive_title |-> <<>>, nchapters |-> 0]

QueuedJobs(chats, titles) ==
    {DownloadAction(c, c, d, t, ch, n) :
        c \in chats, d \in BOOLEAN, t \in titles, ch \in ChapLabels, n \in 1..MaxChapters}

InitRest ==
    /\ pc = [j \in Jobs |-> IF job[j].active THEN "queued" ELSE "none"]
    /\ cur = 0
    /\ actor = 0
    /\ w = [j \in Jobs |-> NoLocals]
    /\ temp = [c \in ChatIds |-> NoDir]
    /\ cbz = <<>>
    /\ status = [j \in Jobs |-> <<>>]
    /\ notices = [j \in Jobs |-> <<>>]
    /\ documents = [j \in Jobs |-> <<>>]
    /\ sealed = [j \in Jobs |-> <<>>]
    /\ tally = [j \in Jobs |-> [list |-> 0, image |-> 0, skipped |-> 0, splits |-> 0]]

\* One job, queued by download_action; nothing on disk.
Init ==
    /\ \E d \in QueuedJobs({1}, MangaTitles) : job = [j \in Jobs |-> IF j = 1 THEN d ELSE NoJob]
    /\ InitRest

\* ------------------------------------------------------------ helpers
Chat(j) == job[j].chat_id

Set(j, f) == [w EXCEPT ![j] = f]

\* As Raise, were the first call to fail tried once more instead of raising.
RaiseRetried(j, kind, locals) ==
    IF locals.e = "none"
    THEN /\ w' = [w EXCEPT ![j] = [locals EXCEPT !.e = kind]]
         /\ UNCHANGED <<pc, cur>>
    ELSE /\ w' = [w EXCEPT ![j] = [locals EXCEPT !.e = kind, !.exit = "except"]]
         /\ pc' = [pc EXCEPT ![j] = "exc_edit"]
         /\ cur' = 0

\* An exception leaves the try block: control goes to the handler of line 282,
\* which logs and reaches its first await (line 284).
Raise(j, kind, locals) ==
    /\ w' = [w EXCEPT ![j] = [locals EXCEPT !.e = kind, !.exit = "except"]]
    /\ pc' = [pc EXCEPT ![j] = "exc_edit"]
    /\ cur' = 0

Goto(j, label) == pc' = [pc EXCEPT ![j] = label]

\* As Stray, were only the unsuffixed container name looked for.
StrayExact(f, safe_title) == f = safe_title \o CbzExt

\* line 289: the files the finally block removes.
Stray(f, safe_title) ==
    /\ EndsWith(f, CbzExt) \/ EndsWith(f, <<".", "z", "i", "p">>)
    /\ StartsWith(f, safe_title)

\* lines 286-291: the finally block, as the disk it leaves.
FinallyTemp(j) == [temp EXCEPT ![Chat(j)] = NoDir]
FinallyCbz(j) ==
    [f \in {g \in DOMAIN cbz : ~Stray(g, w[j].safe_title)} |-> cbz[f]]

\* The coroutine ends: the finally block runs and the job is over.  `how` says
\* how the try statement was left: "end", "return_empty", "return_nopages",
\* "handled" (the handler of line 282 ran to its end), "handler_edit_raised" or
\* "handler_send_raised" (a call of the handler raised in its turn).
Finish(j, how) ==
    /\ temp' = FinallyTemp(j)
    /\ cbz' = FinallyCbz(j)
    /\ w' = [w EXCEPT ![j].exit = how]
    /\ pc' = [pc EXCEPT ![j] = "done"]
    /\ cur' = 0

\* -------------------------------------------------------- the job
\* lines 181-190: the coroutine starts.
Begin(j) ==
    /\ pc[j] = "queued" /\ cur = 0
    /\ cur' = j /\ actor' = j
    /\ w' = Set(j, [w[j] EXCEPT
            !.is_single_chapter_download = IsSingleChapterDownload(job[j].archive_title),
            !.safe_title = SafeTitle(job[j].archive_title)])
    /\ Goto(j, "plan")
    /\ UNCHANGED <<job, temp, cbz, status, notices, documents, sealed, tally>>

\* lines 195-199: one chapter of the plan; the remote answers with a page list
\* (of which only the length is kept) or the call fails.
PlanChapter(j, maxp) ==
    /\ pc[j] = "plan" /\ cur = j
    /\ w[j].i < job[j].nchapters
    /\ actor' = j
    /\ tally' = [tally EXCEPT ![j].list = @ + 1]
    /\ \/ Raise(j, "list", w[j])
       \/ /\ \E n \in 0..(maxp - w[j].total_pages_for_all_chapters) :
                w' = Set(j, [w[j] EXCEPT
                        !.chapter_page_counts = Append(@, n),
                        !.total_pages_for_all_chapters = @ + n,
                        !.i = @ + 1])
          /\ UNCHANGED <<pc, cur>>
    /\ UNCHANGED <<job, temp, cbz, status, notices, documents, sealed>>

\* As PlanIsEmpty, were the test of line 201 never true.
PlanIsEmptyNever(total) == total < 0

\* line 201: the plan is empty.
PlanIsEmpty(total) == total = 0

\* lines 201-209: after the plan.  An empty plan goes to its two messages;
\* otherwise the scratch directory is made anew and the fetch begins.
PlanDone(j) ==
    /\ pc[j] = "plan" /\ cur = j
    /\ w[j].i = job[j].nchapters
    /\ actor' = j
    /\ IF PlanIsEmpty(w[j].total_pages_for_all_chapters)
       THEN /\ Goto(j, "empty_edit") /\ cur' = 0
            /\ UNCHANGED <<w, temp>>
       ELSE /\ temp' = [temp EXCEPT ![Chat(j)] = EmptyDir]
            /\ w' = Set(j, [w[j] EXCEPT !.current_page_global_index = 1,
                                        !.i = 0, !.page_num_in_chapter = 0])
            /\ Goto(j, "fetch")
            /\ UNCHANGED cur
    /\ UNCHANGED <<job, cbz, status, notices, documents, sealed, tally>>

\* As ProgressText, were the pages fetched so far reported.
ProgressTextFetched(l) ==
    <<"progress", l.i, l.page_num_in_chapter, l.chapter_page_counts[l.i + 1],
      l.current_page_global_index - 1, l.total_pages_for_all_chapters>>

\* lines 220-223: the progress text of the page about to be fetched.
ProgressText(l) ==
    <<"progress", l.i, l.page_num_in_chapter + 1, l.chapter_page_counts[l.i + 1],
      l.current_page_global_index, l.total_pages_for_all_chapters>>

\* lines 211-223: the two loop headers, up to the await of line 224.
FetchLoop(j) ==
    /\ pc[j] = "fetch" /\ cur = j
    /\ actor' = j
    /\ IF w[j].i >= job[j].nchapters
       THEN Goto(j, "fetched") /\ UNCHANGED <<w, cur>>
       ELSE IF w[j].page_num_in_chapter >= w[j].chapter_page_counts[w[j].i + 1]
       THEN /\ w' = Set(j, [w[j] EXCEPT !.i = @ + 1, !.page_num_in_chapter = 0])
            /\ UNCHANGED <<pc, cur>>
       ELSE Goto(j, "progress_edit") /\ cur' = 0 /\ UNCHANGED w
    /\ UNCHANGED <<job, temp, cbz, status, notices, documents, sealed, tally>>

\* line 224: await edit_message_text(status_text); the call may raise.
ProgressEdit(j) ==
    /\ pc[j] = "progress_edit" /\ cur = 0
    /\ actor' = j
    /\ \/ /\ status' = [status EXCEPT ![j] = Append(@, ProgressText(w[j]))]
          /\ Goto(j, "refetch") /\ cur' = j
          /\ UNCHANGED w
       \/ Raise(j, "edit", w[j]) /\ UNCHANGED status
    /\ UNCHANGED <<job, temp, cbz, notices, documents, sealed, tally>>

\* As NextPage, were a page with no image key to take a global index.
NextPageCounted(l) ==
    [l EXCEPT !.page_num_in_chapter = @ + 1, !.current_page_global_index = @ + 1]

\* line 229: a page with no image key is passed over.
NextPage(l) == [l EXCEPT !.page_num_in_chapter = @ + 1]

\* lines 226-229: the page list is fetched again and the page looked up.  The
\* call fails, or the list is now too short (IndexError), or the page has no
\* image key (continue), or it has one.
Refetch(j) ==
    /\ pc[j] = "refetch" /\ cur = j
    /\ actor' = j
    /\ \/ Raise(j, "list", w[j]) /\ tally' = [tally EXCEPT ![j].list = @ + 1]
       \/ Raise(j, "index", w[j]) /\ tally' = [tally EXCEPT ![j].list = @ + 1]
       \/ /\ w' = Set(j, NextPage(w[j])) /\ Goto(j, "fetch") /\ UNCHANGED cur
          /\ tally' = [tally EXCEPT ![j].list = @ + 1, ![j].skipped = @ + 1]
       \/ /\ Goto(j, "download") /\ UNCHANGED <<w, cur>>
          /\ tally' = [tally EXCEPT ![j].list = @ + 1]
    /\ UNCHANGED <<job, temp, cbz, status, notices, documents, sealed>>

\* As NextGlobalIndex, were the increment of line 234 missing.
NextGlobalIndexStuck(index) == index

\* line 234: the next global index.
NextGlobalIndex(index) == index + 1

\* The bytes of one page: whose job downloaded them, which page, how many.
PageData(j, l, size) ==
    [owner |-> j, chapter |-> l.i, page |-> l.page_num_in_chapter, size |-> size]

\* lines 231-232: open(img_path, 'wb') and write; the file replaces any file
\* of that name.
WriteFile(dir, name, data) ==
    [dir EXCEPT !.files = [f \in DOMAIN dir.files \cup {name} |->
                             IF f = name THEN data ELSE dir.files[f]]]

\* lines 233-234 and the loop's step: the page is listed and counted.
PageFetched(l, name) ==
    [l EXCEPT !.downloaded_page_paths = Append(@, name),
              !.current_page_global_index = NextGlobalIndex(@),
              !.page_num_in_chapter = @ + 1]

\* As ImageFailed, were a failed download passed over like a page with no key
\* (the lenient policy), the failure only noted.
ImageSkipped(j) ==
    /\ w' = Set(j, [NextPage(w[j]) EXCEPT !.e = "image"])
    /\ Goto(j, "fetch")
    /\ UNCHANGED cur

\* line 230 with lines 68-73: download_image raises and nothing catches it
\* before the handler of line 282.
ImageFailed(j) == Raise(j, "image", w[j])

\* lines 230-234: the image is downloaded and written to the scratch
\* directory.  The download fails, or the directory is gone (open raises), or
\* the write fails after the file was created, or the page is stored.
Download(j) ==
    /\ pc[j] = "download" /\ cur = j
    /\ actor' = j
    /\ tally' = [tally EXCEPT ![j].image = @ + 1]
    /\ LET name == ImgName(w[j].current_page_global_index)
           dir  == temp[Chat(j)]
       IN  \/ ImageFailed(j) /\ UNCHANGED temp
           \/ /\ ~dir.exists
              /\ Raise(j, "write", w[j]) /\ UNCHANGED temp
           \/ /\ dir.exists
              /\ temp' = [temp EXCEPT ![Chat(j)] = WriteFile(dir, name, PageData(j, w[j], 0))]
              /\ Raise(j, "write", w[j])
           \/ /\ dir.exists
              /\ \E size \in PageSizes :
                   temp' = [temp EXCEPT ![Chat(j)] =
                               WriteFile(dir, name, PageData(j, w[j], size))]
              /\ w' = Set(j, PageFetched(w[j], name))
              /\ Goto(j, "fetch") /\ UNCHANGED cur
    /\ UNCHANGED <<job, cbz, status, notices, documents, sealed>>

\* lines 236-243: nothing fetched goes to its two messages; otherwise the
\* packing loop is set up.
AfterFetch(j) ==
    /\ pc[j] = "fetched" /\ cur = j
    /\ actor' = j
    /\ IF w[j].downloaded_page_paths = <<>>
       THEN Goto(j, "nopages_edit") /\ cur' = 0 /\ UNCHANGED w
       ELSE /\ w' = Set(j, [w[j] EXCEPT !.part_num = 1, !.page_index = 0])
            /\ Goto(j, "pack") /\ UNCHANGED cur
    /\ UNCHANGED <<job, temp, cbz, status, notices, documents, sealed, tally>>

\* As OuterCond, were the comparison of line 245 written <=.
OuterCondLeq(l) == l.page_index <= Len(l.downloaded_page_paths)

\* lines 245 and 255: the conditions of the outer and of the inner loop.
OuterCond(l) == l.page_index < Len(l.downloaded_page_paths)
InnerCond(l) == l.page_index < Len(l.downloaded_page_paths)

\* lines 245-250: the head of the packing loop, up to the await of line 251;
\* when the loop is over, up to the await of line 279.
PackLoop(j, maxparts) ==
    /\ pc[j] = "pack" /\ cur = j
    /\ actor' = j
    /\ IF OuterCond(w[j])
       THEN /\ w[j].part_num <= maxparts
            /\ w' = Set(j, [w[j] EXCEPT !.cbz_filename =
                        CbzFilename(w[j].safe_title, w[j].is_single_chapter_download,
                                    w[j].part_num)])
            /\ Goto(j, "creating_edit")
       ELSE Goto(j, "final_send") /\ UNCHANGED w
    /\ cur' = 0
    /\ UNCHANGED <<job, temp, cbz, status, notices, documents, sealed, tally>>

\* line 251: await edit_message_text("Creating archive: ...").
CreatingEdit(j) ==
    /\ pc[j] = "creating_edit" /\ cur = 0
    /\ actor' = j
    /\ \/ /\ status' = [status EXCEPT ![j] = Append(@, <<"creating", w[j].cbz_filename>>)]
          /\ Goto(j, "open_zip") /\ cur' = j
          /\ UNCHANGED w
       \/ Raise(j, "edit", w[j]) /\ UNCHANGED status
    /\ UNCHANGED <<job, temp, cbz, notices, documents, sealed, tally>>

\* A file of the working directory is written, replacing any file of the name.
PutCbz(name, file) ==
    [f \in DOMAIN cbz \cup {name} |-> IF f = name THEN file ELSE cbz[f]]

\* As RemoveCbz, were the file left on disk.
KeepCbz(name) == cbz

\* os.remove(name)
RemoveCbz(name) == [f \in DOMAIN cbz \ {name} |-> cbz[f]]

\* lines 253-254: zipfile.ZipFile(cbz_filename, 'w') creates or truncates the
\* file.
OpenZip(j) ==
    /\ pc[j] = "open_zip" /\ cur = j
    /\ actor' = j
    /\ cbz' = PutCbz(w[j].cbz_filename, [owner |-> j, entries |-> <<>>, closed |-> FALSE])
    /\ w' = Set(j, [w[j] EXCEPT !.pages_in_current_part = 0])
    /\ Goto(j, "zip")
    /\ UNCHANGED <<job, cur, temp, status, notices, documents, sealed, tally>>

\* line 260: the container is over the ceiling and held a page before this one.
MustSplit(size, pages_in_current_part) ==
    size > SAFE_LIMIT /\ pages_in_current_part > 0

\* lines 261-262: the cursor after a split.
SplitCursor(page_index) == page_index - 1

\* The archive is closed by the with statement (normally or by an exception).
CloseZip(name) == PutCbz(name, [cbz[name] EXCEPT !.closed = TRUE])

\* lines 255-264: one turn of the inner loop.  zipf.write reads the scratch
\* file (gone: it raises) and appends it to the archive (or the write fails);
\* then the size of the archive on disk is measured.
ZipWrite(j) ==
    /\ pc[j] = "zip" /\ cur = j
    /\ InnerCond(w[j])
    /\ actor' = j
    /\ LET l       == w[j]
           name    == l.cbz_filename
           page    == l.downloaded_page_paths[l.page_index + 1]
           dir     == temp[Chat(j)]
           there   == dir.exists /\ page \in DOMAIN dir.files
           entries == Append(cbz[name].entries, [arcname |-> page, data |-> dir.files[page]])
       IN  \/ /\ ~there
              /\ cbz' = CloseZip(name)
              /\ Raise(j, "read", l) /\ UNCHANGED tally
           \/ /\ there
              /\ cbz' = CloseZip(name)
              /\ Raise(j, "pack", l) /\ UNCHANGED tally
           \/ /\ there
              /\ cbz' = PutCbz(name, [cbz[name] EXCEPT !.entries = entries])
              /\ IF MustSplit(GetSizeOpen(entries), l.pages_in_current_part)
                 THEN /\ w' = Set(j, [l EXCEPT !.page_index = SplitCursor(@)])
                      /\ Goto(j, "zip_close")
                      /\ tally' = [tally EXCEPT ![j].splits = @ + 1]
                 ELSE /\ w' = Set(j, [l EXCEPT !.pages_in_current_part = @ + 1,
                                                !.page_index = @ + 1])
                      /\ UNCHANGED <<pc, tally>>
              /\ UNCHANGED cur
    /\ UNCHANGED <<job, temp, status, notices, documents, sealed>>

\* A closed container as the packing loop leaves it.
Sealed(name, part_num, entries) ==
    [name |-> name, part |-> part_num,
     files |-> [k \in 1..Len(entries) |-> entries[k].arcname],
     entries |-> entries, size |-> GetSizeClosed(entries)]

\* lines 253-267: the inner loop ended or broke; the with statement closes the
\* archive, and the job reaches the await of line 267.
ZipClose(j) ==
    /\ cur = j
    /\ pc[j] = "zip_close" \/ (pc[j] = "zip" /\ ~InnerCond(w[j]))
    /\ actor' = j
    /\ cbz' = CloseZip(w[j].cbz_filename)
    /\ sealed' = [sealed EXCEPT ![j] =
            Append(@, Sealed(w[j].cbz_filename, w[j].part_num, cbz[w[j].cbz_filename].entries))]
    /\ Goto(j, "uploading_edit") /\ cur' = 0
    /\ UNCHANGED <<job, w, temp, status, notices, documents, tally>>

\* lines 267-268: await edit_message_text("Uploading: ..."), then the container
\* is opened for reading (gone: open raises) and send_document is awaited.
UploadingEdit(j) ==
    /\ pc[j] = "uploading_edit" /\ cur = 0
    /\ actor' = j
    /\ LET name == w[j].cbz_filename
       IN  \/ Raise(j, "edit", w[j]) /\ UNCHANGED status
           \/ /\ status' = [status EXCEPT ![j] = Append(@, <<"uploading", name>>)]
              /\ IF name \in DOMAIN cbz
                 THEN /\ w' = Set(j, [w[j] EXCEPT !.cbz_file = cbz[name]])
                      /\ Goto(j, "send_document") /\ UNCHANGED cur
                 ELSE Raise(j, "open", w[j])
    /\ UNCHANGED <<job, temp, cbz, notices, documents, sealed, tally>>

\* What send_document may read through the open file: the file as it was when
\* opened, or as it is now if another writer has replaced it meanwhile.
Readable(j) ==
    {w[j].cbz_file} \cup
    (IF w[j].cbz_filename \in DOMAIN cbz THEN {cbz[w[j].cbz_filename]} ELSE {})

\* lines 269-272: await send_document; then the container is removed (gone:
\* os.remove raises) and the part number stepped.
SendDocument(j) ==
    /\ pc[j] = "send_document" /\ cur = 0
    /\ actor' = j
    /\ LET name == w[j].cbz_filename
       IN  \/ Raise(j, "upload", w[j]) /\ UNCHANGED <<documents, cbz>>
           \/ /\ \E file \in Readable(j) :
                    documents' = [documents EXCEPT ![j] =
                        Append(@, [filename |-> name, part |-> w[j].part_num,
                                   owner |-> file.owner, entries |-> file.entries])]
              /\ IF name \in DOMAIN cbz
                 THEN /\ cbz' = RemoveCbz(name)
                      /\ w' = Set(j, [w[j] EXCEPT !.part_num = @ + 1,
                                                  !.cbz_file = <<>>])
                      /\ Goto(j, "pack") /\ cur' = j
                 ELSE Raise(j, "remove", w[j]) /\ UNCHANGED cbz
    /\ UNCHANGED <<job, temp, status, notices, sealed, tally>>

\* As PartsStated, were the number of parts always stated.
PartsStatedAlways(part_num, is_single) == part_num - 1

\* lines 276-277: the number of parts the completion notice states (0: none).
PartsStated(part_num, is_single) ==
    IF part_num > 2 \/ (~is_single /\ part_num = 2) THEN part_num - 1 ELSE 0

\* lines 275-279: await send_message(final_message).
FinalSend(j) ==
    /\ pc[j] = "final_send" /\ cur = 0
    /\ actor' = j
    /\ \/ /\ notices' = [notices EXCEPT ![j] = Append(@,
                <<"complete", PartsStated(w[j].part_num, w[j].is_single_chapter_download)>>)]
          /\ Goto(j, "delete_message")
          /\ UNCHANGED <<w, cur>>
       \/ Raise(j, "send", w[j]) /\ UNCHANGED notices
    /\ UNCHANGED <<job, temp, cbz, status, documents, sealed, tally>>

\* line 280: await delete_message; then the try block ends.
DeleteMessage(j) ==
    /\ pc[j] = "delete_message" /\ cur = 0
    /\ actor' = j
    /\ \/ /\ status' = [status EXCEPT ![j] = Append(@, <<"deleted">>)]
          /\ Finish(j, "end")
       \/ Raise(j, "delete", w[j]) /\ UNCHANGED <<status, temp, cbz>>
    /\ UNCHANGED <<job, notices, documents, sealed, tally>>

\* line 202: await edit_message_text("Could not get page counts. Aborting.").
EmptyEdit(j) ==
    /\ pc[j] = "empty_edit" /\ cur = 0
    /\ actor' = j
    /\ \/ /\ status' = [status EXCEPT ![j] = Append(@, <<"no_page_counts">>)]
          /\ Goto(j, "empty_send")
          /\ UNCHANGED <<w, cur>>
       \/ Raise(j, "edit", w[j]) /\ UNCHANGED status
    /\ UNCHANGED <<job, temp, cbz, notices, documents, sealed, tally>>

\* lines 203-204: await send_message(...); return.
EmptySend(j) ==
    /\ pc[j] = "empty_send" /\ cur = 0
    /\ actor' = j
    /\ \/ /\ notices' = [notices EXCEPT ![j] = Append(@, <<"no_page_information">>)]
          /\ Finish(j, "return_empty")
       \/ Raise(j, "send", w[j]) /\ UNCHANGED <<notices, temp, cbz>>
    /\ UNCHANGED <<job, status, documents, sealed, tally>>

\* line 237: await edit_message_text("Could not download any images. Aborting.").
NoPagesEdit(j) ==
    /\ pc[j] = "nopages_edit" /\ cur = 0
    /\ actor' = j
    /\ \/ /\ status' = [status EXCEPT ![j] = Append(@, <<"no_images">>)]
          /\ Goto(j, "nopages_send")
          /\ UNCHANGED <<w, cur>>
       \/ Raise(j, "edit", w[j]) /\ UNCHANGED status
    /\ UNCHANGED <<job, temp, cbz, notices, documents, sealed, tally>>

\* lines 238-239: await send_message(...); return.
NoPagesSend(j) ==
    /\ pc[j] = "nopages_send" /\ cur = 0
    /\ actor' = j
    /\ \/ /\ notices' = [notices EXCEPT ![j] = Append(@, <<"no_pages_downloaded">>)]
          /\ Finish(j, "return_nopages")
       \/ Raise(j, "send", w[j]) /\ UNCHANGED <<notices, temp, cbz>>
    /\ UNCHANGED <<job, status, documents, sealed, tally>>

\* As ExcEdit, were the handler to leave the status message as it is.
ExcEditSilent(j) ==
    /\ pc[j] = "exc_edit" /\ cur = 0
    /\ actor' = j
    /\ Goto(j, "exc_send")
    /\ UNCHANGED <<job, w, cur, temp, cbz, status, notices, documents, sealed, tally>>

\* lines 282-284: the handler's await edit_message_text("An unexpected error
\* occurred: ...").  If this call raises, the exception leaves the handler and
\* the finally block runs.
ExcEdit(j) ==
    /\ pc[j] = "exc_edit" /\ cur = 0
    /\ actor' = j
    /\ \/ /\ status' = [status EXCEPT ![j] = Append(@, <<"error", w[j].e>>)]
          /\ Goto(j, "exc_send")
          /\ UNCHANGED <<w, cur, temp, cbz>>
       \/ Finish(j, "handler_edit_raised") /\ UNCHANGED status
    /\ UNCHANGED <<job, notices, documents, sealed, tally>>

\* line 285: the handler's await send_message("Please try again ...").
ExcSend(j) ==
    /\ pc[j] = "exc_send" /\ cur = 0
    /\ actor' = j
    /\ \/ /\ notices' = [notices EXCEPT ![j] = Append(@, <<"try_again">>)]
          /\ Finish(j, "handled")
       \/ /\ UNCHANGED notices
          /\ Finish(j, "handler_send_raised")
    /\ UNCHANGED <<job, status, documents, sealed, tally>>

\* ------------------------------------------------------ specifications
Next ==
    \E j \in Jobs :
        \/ Begin(j)
        \/ PlanChapter(j, IF job[j].dl_all THEN MaxPagesAll ELSE MaxPages)
        \/ PlanDone(j)
        \/ FetchLoop(j)
        \/ ProgressEdit(j)
        \/ Refetch(j)
        \/ Download(j)
        \/ AfterFetch(j)
        \/ PackLoop(j, MaxParts)
        \/ CreatingEdit(j)
        \/ OpenZip(j)
        \/ ZipWrite(j)
        \/ ZipClose(j)
        \/ UploadingEdit(j)
        \/ SendDocument(j)
        \/ FinalSend(j)
        \/ DeleteMessage(j)
        \/ EmptyEdit(j)
        \/ EmptySend(j)
        \/ NoPagesEdit(j)
        \/ NoPagesSend(j)
        \/ ExcEdit(j)
        \/ ExcSend(j)

\* One job on an otherwise idle bot.
Spec == Init /\ [][Next]_vars

\* Two jobs queued at once, for the same chat or for two chats, with equal
\* titles or titles of which one begins with the other.
InitTwo ==
    /\ \E d1 \in QueuedJobs({1}, {<<"A", "!", " ">>}) : \E d2 \in QueuedJobs(ChatIds, MangaTitles) :
           job = [j \in Jobs |-> IF j = 1 THEN d1 ELSE [d2 EXCEPT !.message_id = 3]]
    /\ InitRest

NextTwo ==
    \E j \in Jobs :
        \/ Begin(j)
        \/ PlanChapter(j, MaxPagesTwo)
        \/ PlanDone(j)
        \/ FetchLoop(j)
        \/ ProgressEdit(j)
        \/ Refetch(j)
        \/ Download(j)
        \/ AfterFetch(j)
        \/ PackLoop(j, MaxPartsTwo)
        \/ CreatingEdit(j)
        \/ OpenZip(j)
        \/ ZipWrite(j)
        \/ ZipClose(j)
        \/ UploadingEdit(j)
        \/ SendDocument(j)
        \/ FinalSend(j)
        \/ DeleteMessage(j)
        \/ EmptyEdit(j)
        \/ EmptySend(j)
        \/ NoPagesEdit(j)
        \/ NoPagesSend(j)
        \/ ExcEdit(j)
        \/ ExcSend(j)

\* Two jobs sharing the event loop, the working directory and the remote API.
SpecTwo == InitTwo /\ [][NextTwo]_vars

\* ------------------------------------------------------------- claims
Last(s) == s[Len(s)]

\* The file lists of a run of containers, one after the other.
RECURSIVE ConcatFiles(_)
ConcatFiles(parts) ==
    IF parts = <<>> THEN <<>> ELSE parts[1].files \o ConcatFiles(Tail(parts))

\* The packing loop of job j has ended (line 245 found the cursor at the end).
PackingOver(j) == pc[j] = "final_send"

\* C1: partition law.  When the packing loop has ended, the file lists of the
\* containers it sealed, concatenated in part order, are exactly the list of
\* fetched pages: nothing twice, nothing missing, nothing out of order.
C1_PartitionLaw ==
    \A j \in Jobs :
        PackingOver(j) => ConcatFiles(sealed[j]) = w[j].downloaded_page_paths

\* C2: size ceiling.  Every sealed container has a serialized size of at most
\* SAFE_LIMIT, unless it holds exactly one file.
C2_SizeCeiling ==
    \A j \in Jobs : \A k \in 1..Len(sealed[j]) :
        sealed[j][k].size <= SAFE_LIMIT \/ Len(sealed[j][k].files) = 1

\* C3: every container the packing loop seals, and every document it uploads,
\* holds at least one file, also when one file alone is over the ceiling.
C3_NoEmptyContainer ==
    \A j \in Jobs :
        /\ \A k \in 1..Len(sealed[j]) : Len(sealed[j][k].files) >= 1
        /\ \A k \in 1..Len(documents[j]) : Len(documents[j][k].entries) >= 1

\* C3's case: a file that alone is over the ceiling was sealed alone in its
\* container and uploaded.
C3_Witness ==
    \E j \in Jobs : \E k \in 1..Len(documents[j]) :
        /\ Len(documents[j][k].entries) = 1
        /\ documents[j][k].entries[1].data.size > SAFE_LIMIT
        /\ sealed[j][k].files = <<documents[j][k].entries[1].arcname>>

\* The container name of part k with and without the part suffix.
SuffixedName(safe_title, k) == safe_title \o PartSuffix(k) \o CbzExt
BareName(safe_title) == safe_title \o CbzExt

\* C4: naming of single-chapter jobs.  A single-chapter job whose packing never
\* went over the ceiling ends with exactly one container, named with the bare
\* sanitized title; one that went over it at least once ends with at least two
\* containers, the k-th named <SanitizedTitle>_Part_<k>.
C4_SingleChapterNaming ==
    \A j \in Jobs :
        (job[j].active /\ ~job[j].dl_all /\ PackingOver(j)) =>
            LET safe == SafeTitle(job[j].archive_title)
            IN  IF tally[j].splits = 0
                THEN /\ Len(sealed[j]) = 1
                     /\ sealed[j][1].name = BareName(safe)
                ELSE /\ Len(sealed[j]) >= 2
                     /\ \A k \in 1..Len(sealed[j]) :
                            sealed[j][k].name = SuffixedName(safe, k)

\* C5: naming of multi-chapter jobs.  In a download-all job the k-th sealed
\* container is named <SanitizedTitle>_Part_<k>, k = 1 for the first and one
\* more for each container sealed, also when there is only one.
C5_MultiChapterNaming ==
    \A j \in Jobs :
        (job[j].active /\ job[j].dl_all) =>
            \A k \in 1..Len(sealed[j]) :
                /\ sealed[j][k].part = k
                /\ sealed[j][k].name = SuffixedName(SafeTitle(job[j].archive_title), k)

\* The pages of a plan in reading order: chapter by chapter (from chapter i
\* on), page by page, as <<chapter, page>> counted from 0.
RECURSIVE ReadingOrder(_, _)
ReadingOrder(counts, i) ==
    IF i >= Len(counts) THEN <<>>
    ELSE [p \in 1..counts[i + 1] |-> <<i, p - 1>>] \o ReadingOrder(counts, i + 1)

\* The fetch phase of job j has ended (both loops of lines 211-234 are over).
FetchOver(j) == pc[j] = "fetched"

\* C6: fetcher completeness and order.  When the fetch phase ends (so no call
\* failed) and no page was passed over for want of an image key, there are
\* exactly N fetched files for a plan of N pages, the k-th is the file of global
\* index k, and it holds the bytes of the k-th page in reading order.
C6_FetchComplete ==
    \A j \in Jobs :
        (FetchOver(j) /\ tally[j].skipped = 0) =>
            LET paths == w[j].downloaded_page_paths
                order == ReadingOrder(w[j].chapter_page_counts, 0)
                files == temp[Chat(j)].files
            IN  /\ Len(paths) = w[j].total_pages_for_all_chapters
                /\ Len(order) = Len(paths)
                /\ \A k \in 1..Len(paths) :
                        /\ paths[k] = ImgName(k)
                        /\ paths[k] \in DOMAIN files
                        /\ files[paths[k]].owner = j
                        /\ <<files[paths[k]].chapter, files[paths[k]].page>> = order[k]

\* C6's case: two non-empty chapters, three pages or more, all fetched.
C6_Witness ==
    \E j \in Jobs :
        /\ FetchOver(j) /\ tally[j].skipped = 0
        /\ Len(w[j].chapter_page_counts) = 2
        /\ w[j].chapter_page_counts[1] >= 1 /\ w[j].chapter_page_counts[2] >= 2
        /\ Len(w[j].downloaded_page_paths) >= 3

\* The disk holds nothing of job j: no scratch directory of its chat, no
\* container whose name starts with its sanitized title.
CleanDisk(j) ==
    /\ ~temp[Chat(j)].exists
    /\ \A f \in DOMAIN cbz : ~StartsWith(f, SafeTitle(job[j].archive_title))

\* C7: guaranteed cleanup.  Whenever the job is over, however it ended, its
\* scratch directory does not exist and no container of its title is on disk.
C7_Cleanup == \A j \in Jobs : pc[j] = "done" => CleanDisk(j)

\* C7's case: the job ended by an error raised while a container was on disk
\* (the upload failed) and pages were in the scratch directory.
C7_Witness ==
    \E j \in Jobs :
        /\ pc[j] = "done" /\ w[j].e = "upload"
        /\ Len(w[j].downloaded_page_paths) >= 2
        /\ Len(sealed[j]) >= 1

\* The plan of job j was built to its end and totals no page.
EmptyPlan(j) ==
    /\ pc[j] \notin {"none", "queued", "plan"}
    /\ w[j].i = job[j].nchapters
    /\ w[j].total_pages_for_all_chapters = 0

\* What an empty plan never does: download an image, make a scratch directory,
\* make, seal or upload a container; and the disk holds nothing of the job.
EmptyPlanIdle(j) ==
    /\ tally[j].image = 0
    /\ tally[j].list = job[j].nchapters
    /\ sealed[j] = <<>> /\ documents[j] = <<>>
    /\ CleanDisk(j)

\* C8 as stated: a job with an empty plan ends with the no-pages-available
\* outcome (the return of line 204, after its two messages), has downloaded no
\* image and made no scratch directory or container, and leaves none.
C8_EmptyPlanAsStated ==
    \A j \in Jobs :
        EmptyPlan(j) =>
            /\ EmptyPlanIdle(j)
            /\ pc[j] = "done" => /\ w[j].exit = "return_empty"
                                 /\ status[j] = << <<"no_page_counts">> >>
                                 /\ notices[j] = << <<"no_page_information">> >>

\* C8 as amended: the same, the outcome being the no-pages-available one unless
\* one of its two messages (lines 202, 203) itself raised, in which case the
\* job ends through the handler of line 282.
C8_EmptyPlan ==
    \A j \in Jobs :
        EmptyPlan(j) =>
            /\ EmptyPlanIdle(j)
            /\ w[j].e \in {"none", "edit", "send"}
            /\ (pc[j] = "done" /\ w[j].e = "none") =>
                    /\ w[j].exit = "return_empty"
                    /\ status[j] = << <<"no_page_counts">> >>
                    /\ notices[j] = << <<"no_page_information">> >>
            /\ w[j].e = "none" => pc[j] \in {"empty_edit", "empty_send", "done"}

\* C8's case: a download-all job of two chapters with no page ended with the
\* no-pages-available outcome.
C8_Witness ==
    \E j \in Jobs :
        /\ EmptyPlan(j) /\ pc[j] = "done" /\ w[j].exit = "return_empty"
        /\ job[j].nchapters = 2

\* A page-list call or an image download of job j has failed.
RemoteFailed(j) == w[j].e \in {"list", "image"}

\* After such a failure: the job is in its handler or over, nothing was sealed
\* or uploaded, and once over the disk holds nothing of the job.
Aborted(j) ==
    /\ pc[j] \in {"exc_edit", "exc_send", "done"}
    /\ sealed[j] = <<>> /\ documents[j] = <<>>
    /\ \A f \in DOMAIN cbz : cbz[f].owner # j
    /\ pc[j] = "done" => CleanDisk(j)

\* The error is on the status message as its last text.
ErrorSurfaced(j) == status[j] # <<>> /\ Last(status[j]) = <<"error", w[j].e>>

\* C10 as stated: after a failed page-list call or image download the job makes
\* no further remote call, seals and uploads nothing (so no fetched page is
\* delivered), shows the error on the status message and cleans up.
C10_AbortAsStated ==
    [][\A j \in Jobs :
          /\ RemoteFailed(j) => /\ tally'[j].list = tally[j].list
                                /\ tally'[j].image = tally[j].image
          /\ RemoteFailed(j)' => /\ Aborted(j)'
                                 /\ (pc'[j] \in {"exc_send", "done"} => ErrorSurfaced(j)')]_vars

\* C10 as amended: the same, the error being on the status message unless the
\* handler's own edit of the status message (line 284) raised.
C10_Abort ==
    [][\A j \in Jobs :
          /\ RemoteFailed(j) => /\ tally'[j].list = tally[j].list
                                /\ tally'[j].image = tally[j].image
          /\ RemoteFailed(j)' => /\ Aborted(j)'
                                 /\ (/\ pc'[j] \in {"exc_send", "done"}
                                     /\ w'[j].exit # "handler_edit_raised") => ErrorSurfaced(j)']_vars

\* C10's case: an image download failed after two pages had been fetched, the
\* error was shown and the job is over.
C10_Witness ==
    \E j \in Jobs :
        /\ pc[j] = "done" /\ w[j].e = "image"
        /\ Len(w[j].downloaded_page_paths) >= 2
        /\ ErrorSurfaced(j)
        /\ documents[j] = <<>>

\* The files on disk that are not the acting job's are left as they were.
OthersFilesKept ==
    /\ \A f \in DOMAIN cbz :
          cbz[f].owner # actor' => (f \in DOMAIN cbz' /\ cbz'[f] = cbz[f])
    /\ \A c \in ChatIds : \A n \in DOMAIN temp[c].files :
          temp[c].files[n].owner # actor' =>
              (n \in DOMAIN temp'[c].files /\ temp'[c].files[n] = temp[c].files[n])

\* What job j packed and uploaded was read from its own files.
OwnFilesRead(j) ==
    /\ \A k \in 1..Len(sealed[j]) : \A m \in 1..Len(sealed[j][k].entries) :
          sealed[j][k].entries[m].data.owner = j
    /\ \A k \in 1..Len(documents[j]) : documents[j][k].owner = j

FetchingOrFetched(j) ==
    /\ w[j].e = "none"
    /\ pc[j] \notin {"none", "queued", "plan"}
    /\ w[j].total_pages_for_all_chapters > 0

\* The fetch loops of lines 211-234 are still running.
InFetchLoops(j) == pc[j] \in {"fetch", "progress_edit", "refetch", "download"}

\* The pages of the first i chapters of a plan.
RECURSIVE SumFirst(_, _)
SumFirst(counts, i) == IF i = 0 THEN 0 ELSE counts[i] + SumFirst(counts, i - 1)

\* <<chapter, page>> a comes before b in reading order.
Before(a, b) == a[1] < b[1] \/ (a[1] = b[1] /\ a[2] < b[2])

\* C11: skip policy.  As long as no call has failed, pages without an image key
\* have been passed over and nothing more: no download was attempted for them
\* (downloads made = pages fetched), they took no global index (the fetched
\* files are 0001..M, the next index is M + 1), every page up to the loop's
\* position was processed (fetched or passed over) and, once the loops are
\* over, every page of the plan, M being the planned pages less those passed
\* over; the fetched files hold pages in reading order.
C11_SkipPolicy ==
    \A j \in Jobs :
        FetchingOrFetched(j) =>
            LET l     == w[j]
                paths == l.downloaded_page_paths
                M     == Len(paths)
                files == temp[Chat(j)].files
            IN  /\ tally[j].image = M
                /\ l.current_page_global_index = M + 1
                /\ \A k \in 1..M : paths[k] = ImgName(k)
                /\ M + tally[j].skipped =
                        SumFirst(l.chapter_page_counts, l.i) + l.page_num_in_chapter
                /\ ~InFetchLoops(j) =>
                        M = l.total_pages_for_all_chapters - tally[j].skipped
                /\ temp[Chat(j)].exists =>
                        \A k \in 1..M :
                            /\ paths[k] \in DOMAIN files
                            /\ k < M => Before(<<files[paths[k]].chapter, files[paths[k]].page>>,
                                               <<files[paths[k + 1]].chapter, files[paths[k + 1]].page>>)

\* C11's case: a page between two fetched pages of a chapter had no image key;
\* the fetch went on to the end of the plan.
C11_Witness ==
    \E j \in Jobs :
        /\ FetchOver(j) /\ tally[j].skipped >= 1
        /\ \E k \in 1..(Len(w[j].downloaded_page_paths) - 1) :
              LET files == temp[Chat(j)].files
                  a == files[w[j].downloaded_page_paths[k]]
                  b == files[w[j].downloaded_page_paths[k + 1]]
              IN  a.chapter = b.chapter /\ b.page = a.page + 2

\* The page-list calls a job has need of up to where it stands, no call having
\* failed: one per chapter planned, then one per page the fetch loop has come
\* to (the page at hand included once its list has been fetched again).
ListCallsNeeded(j) ==
    IF pc[j] \in {"none", "queued"} THEN 0
    ELSE IF pc[j] = "plan" THEN w[j].i
    ELSE IF w[j].total_pages_for_all_chapters = 0 THEN job[j].nchapters
    ELSE job[j].nchapters + SumFirst(w[j].chapter_page_counts, w[j].i)
            + w[j].page_num_in_chapter + (IF pc[j] = "download" THEN 1 ELSE 0)

\* Planning and fetching of job j went to their end, no call of them failing.
PlanFetched(j) ==
    /\ pc[j] \notin {"none", "queued", "plan"}
    /\ w[j].i = job[j].nchapters

\* C12: no retries, exact call counts.  As long as no call has failed, the
\* page-list operation has been called exactly once per chapter planned and
\* once per page the fetch loop has come to, and the image download once per
\* page fetched; when planning and fetching are over, that is n + p_1 + ... +
\* p_n page-list calls and one download per page with an image key.  No step
\* makes more than one call of a kind, and once a call has failed no remote
\* call is made again.
C12_ExactCalls ==
    [][\A j \in Jobs :
          /\ w'[j].e = "none" => /\ tally'[j].list = ListCallsNeeded(j)'
                                 /\ tally'[j].image = Len(w'[j].downloaded_page_paths)
          /\ PlanFetched(j)' =>
                /\ tally'[j].list = job[j].nchapters + w'[j].total_pages_for_all_chapters
                /\ tally'[j].image = w'[j].total_pages_for_all_chapters - tally'[j].skipped
          /\ tally'[j].list - tally[j].list \in {0, 1}
          /\ tally'[j].image - tally[j].image \in {0, 1}
          /\ w[j].e # "none" => /\ tally'[j].list = tally[j].list
                                /\ tally'[j].image = tally[j].image]_vars

\* C12's case: a download-all job of two chapters, three pages planned, one of
\* them without an image key, ran to its end.
C12_Witness ==
    \E j \in Jobs :
        /\ pc[j] = "done" /\ w[j].exit = "end"
        /\ job[j].nchapters = 2 /\ w[j].total_pages_for_all_chapters = 3
        /\ tally[j].skipped = 1
        /\ tally[j].list = 5 /\ tally[j].image = 2

\* The job ran to the end of its try block (line 280 included).
Completed(j) == pc[j] = "done" /\ w[j].exit = "end"

\* The one completion notice, stating `parts` (0: no number of parts).
OneCompletionNotice(j, parts) ==
    /\ Last(status[j]) = <<"deleted">>
    /\ notices[j] = << <<"complete", parts>> >>

\* C13 as stated: a job that completes has deleted its status message and sent
\* one completion notice, which states the number of parts sent exactly when
\* more than one part was sent, for jobs of either kind.
C13_NoticeAsStated ==
    \A j \in Jobs :
        Completed(j) =>
            OneCompletionNotice(j, IF Len(documents[j]) > 1 THEN Len(documents[j]) ELSE 0)

\* C13 as amended: the same, the notice stating the number of parts sent when
\* more than one part was sent and also when one part was sent by a job whose
\* archive title lacks "_Ch_" (a download-all job of an ordinary title).
C13_Notice ==
    \A j \in Jobs :
        Completed(j) =>
            OneCompletionNotice(j,
                IF Len(documents[j]) > 1 \/ ~Contains(job[j].archive_title, ChMark)
                THEN Len(documents[j]) ELSE 0)

\* C13's case: a download-all job completed with a single container and its
\* notice states one part.
C13_Witness ==
    \E j \in Jobs :
        /\ Completed(j) /\ job[j].dl_all
        /\ Len(documents[j]) = 1
        /\ notices[j] = << <<"complete", 1>> >>

\* The texts that end a job in error: the two abort texts (lines 202, 237) and
\* the handler's text (line 284).
IsAbortText(t) == t[1] \in {"no_page_counts", "no_images"}
IsTerminalText(t) == IsAbortText(t) \/ t[1] = "error"
TerminalTexts(j) == SelectSeq(status[j], IsTerminalText)

\* The job is over and did not complete: some job-level error ended it.
EndedInError(j) == pc[j] = "done" /\ w[j].exit # "end"

\* A step of job j writes a terminal text to its status message.
WritesTerminalText(j) ==
    /\ status'[j] # status[j]
    /\ IsTerminalText(Last(status'[j]))

\* C14 as stated: a job that ends in error has written exactly one terminal
\* error text to its status message, and the cleanup came after that write.
C14_SurfacedAsStated ==
    [][\A j \in Jobs :
          /\ WritesTerminalText(j) => pc'[j] # "done"
          /\ EndedInError(j)' => /\ Len(TerminalTexts(j)') = 1
                                 /\ CleanDisk(j)']_vars

\* C14 as amended: the same, with the two ways a Telegram call of the error
\* path itself can fail: when the handler's edit (line 284) raises, the handler
\* writes nothing; when the send_message after an abort text (lines 203, 238)
\* raises, the handler writes its text after the abort text.  So the terminal
\* texts are the abort text, if written, then the handler's text, if the
\* handler's edit succeeded; there is at least one, and the last text on the
\* status message is terminal, unless the handler's edit raised.
C14_Surfaced ==
    [][\A j \in Jobs :
          /\ WritesTerminalText(j) => pc'[j] # "done"
          /\ EndedInError(j)' =>
                LET texts   == TerminalTexts(j)'
                    abort   == \E k \in 1..Len(texts) : IsAbortText(texts[k])
                    handled == w'[j].exit \in {"handled", "handler_send_raised"}
                IN  /\ Len(texts) = (IF abort THEN 1 ELSE 0) + (IF handled THEN 1 ELSE 0)
                    /\ w'[j].exit \in {"return_empty", "return_nopages"} => abort
                    /\ (abort /\ Len(texts) = 2) =>
                            /\ w'[j].e = "send"
                            /\ IsAbortText(texts[1])
                            /\ texts[2] = <<"error", "send">>
                    /\ w'[j].exit # "handler_edit_raised" =>
                            /\ Len(texts) >= 1
                            /\ Last(status'[j]) = Last(texts)
                    /\ CleanDisk(j)']_vars

\* C14's case: packing failed with pages in the scratch directory and a
\* container on disk; the handler wrote the one error text and the job ended.
C14_Witness ==
    \E j \in Jobs :
        /\ EndedInError(j) /\ w[j].e = "pack" /\ w[j].exit = "handled"
        /\ TerminalTexts(j) = << <<"error", "pack">> >>
        /\ Len(w[j].downloaded_page_paths) >= 2

\* A step of job j in which the inner loop breaks at line 262: the file just
\* appended took the container over the ceiling.
SplitStep(j) == pc[j] = "zip" /\ pc'[j] = "zip_close"

\* The spec's scenario: a single chapter of five pages, each just under half
\* the ceiling, all fetched, and the packing loop has ended.
FiveHalfPages(j) ==
    /\ job[j].active /\ ~job[j].dl_all /\ PackingOver(j)
    /\ Len(w[j].downloaded_page_paths) = 5
    /\ \A k \in 1..5 :
          temp[Chat(j)].files[w[j].downloaded_page_paths[k]].size = HalfPage

\* C15: the split step.  When the file at the cursor takes a container that
\* holds another file over the ceiling, the append is undone (the container
\* keeps exactly the files it held before) and the cursor stays on that file,
\* with which the next container starts; and in the scenario of five pages
\* each just under half the ceiling the job ends with exactly two containers,
\* each within the ceiling, holding the five pages in order.
C15_SplitStep ==
    [][\A j \in Jobs :
          /\ SplitStep(j) =>
                /\ cbz'[w[j].cbz_filename].entries = cbz[w[j].cbz_filename].entries
                /\ w'[j].page_index = w[j].page_index
          /\ FiveHalfPages(j)' =>
                /\ Len(sealed'[j]) = 2
                /\ \A k \in 1..Len(sealed'[j]) : sealed'[j][k].size <= SAFE_LIMIT
                /\ ConcatFiles(sealed'[j]) = w'[j].downloaded_page_paths]_vars

\* The scenario as the code packs it: four containers, holding pages 1-3, 2-4,
\* 3-5 and 4-5.
C15_Scenario ==
    \E j \in Jobs :
        /\ FiveHalfPages(j)
        /\ [k \in 1..Len(sealed[j]) |-> sealed[j][k].files] =
              << <<ImgName(1), ImgName(2), ImgName(3)>>,
                 <<ImgName(2), ImgName(3), ImgName(4)>>,
                 <<ImgName(3), ImgName(4), ImgName(5)>>,
                 <<ImgName(4), ImgName(5)>> >>

\* The container files of job j that are on disk.
OwnCbz(j) == {f \in DOMAIN cbz : cbz[f].owner = j}

\* The fetch loops of job j have processed every page of its plan.
EveryPageProcessed(j) ==
    /\ w[j].i = job[j].nchapters
    /\ Len(w[j].downloaded_page_paths) + tally[j].skipped = w[j].total_pages_for_all_chapters
    /\ tally[j].list = job[j].nchapters + w[j].total_pages_for_all_chapters

\* Steps of job j: a container is opened (line 253), sealed (the with statement
\* ends), uploaded and removed (lines 269-272).
Opens(j) == pc[j] = "open_zip" /\ pc'[j] = "zip"
Seals(j) == sealed'[j] # sealed[j]
Uploads(j) == documents'[j] # documents[j]
HandsOff(j) == pc[j] = "send_document" /\ pc'[j] = "pack"

\* C16: strict hand-off.  A container is opened only when every planned page
\* has been processed by the fetch loops, no container of the job is on disk
\* and every container sealed so far has been uploaded; the container sealed
\* is the one open, of the part after those uploaded; the document uploaded is
\* the container last sealed, closed and still on disk; when the upload is
\* over the container is off the disk before the loop goes on; and at every
\* moment at most one container of the job is on disk.
C16_HandOff ==
    [][\A j \in Jobs :
          /\ Cardinality(OwnCbz(j)') <= 1
          /\ Opens(j) => /\ EveryPageProcessed(j)
                         /\ OwnCbz(j) = {}
                         /\ Len(documents[j]) = Len(sealed[j])
                         /\ w[j].part_num = Len(sealed[j]) + 1
          /\ Seals(j) => /\ Len(sealed'[j]) = Len(documents[j]) + 1
                         /\ Last(sealed'[j]).part = Len(sealed'[j])
                         /\ OwnCbz(j)' = {Last(sealed'[j]).name}
                         /\ cbz'[Last(sealed'[j]).name].closed
          /\ Uploads(j) => /\ Len(documents'[j]) = Len(sealed[j])
                           /\ OwnCbz(j) = {Last(sealed[j]).name}
                           /\ cbz[Last(sealed[j]).name].closed
                           /\ Last(documents'[j]).filename = Last(sealed[j]).name
                           /\ Last(documents'[j]).entries = Last(sealed[j]).entries
          /\ HandsOff(j) => Uploads(j) /\ OwnCbz(j)' = {}]_vars

\* C16's case: the first container was sealed, uploaded and removed, and the
\* second is open and being filled.
C16_Witness ==
    \E j \in Jobs :
        /\ pc[j] = "zip" /\ w[j].part_num = 2
        /\ Len(documents[j]) = 1 /\ Len(sealed[j]) = 1
        /\ OwnCbz(j) = {w[j].cbz_filename}
        /\ ~cbz[w[j].cbz_filename].closed
        /\ cbz[w[j].cbz_filename].entries # <<>>

\* The progress texts job j has shown, in order.
IsProgressText(t) == t[1] = "progress"
ProgressTexts(j) == SelectSeq(status[j], IsProgressText)

\* The progress text that reports the page the fetch loop of job j stands at:
\* chapter, page of the chapter (from 1), pages of the chapter, global index,
\* pages of the plan.
ReportsPageAtHand(j, t) ==
    t = <<"progress", w[j].i, w[j].page_num_in_chapter + 1,
          w[j].chapter_page_counts[w[j].i + 1],
          Len(w[j].downloaded_page_paths) + 1, w[j].total_pages_for_all_chapters>>

\* C17 as stated: every progress update shown reports a page that has been
\* fetched: its global index is that of a fetched file.
C17_ProgressAsStated ==
    \A j \in Jobs :
        \A k \in 1..Len(ProgressTexts(j)) :
            ProgressTexts(j)[k][5] <= Len(w[j].downloaded_page_paths)

\* C17 as amended: the progress update that reports a page is emitted before
\* that page is fetched.  The step that shows it reports the page at hand, of
\* which neither the page list has been fetched again nor the file written;
\* and whenever the page list is fetched again, the image downloaded, or the
\* page passed over for want of a key, the text last shown reports that page.
C17_Progress ==
    [][\A j \in Jobs :
          /\ (status'[j] # status[j] /\ IsProgressText(Last(status'[j]))) =>
                /\ ReportsPageAtHand(j, Last(status'[j]))
                /\ w'[j].downloaded_page_paths = w[j].downloaded_page_paths
                /\ ImgName(Last(status'[j])[5]) \notin DOMAIN temp'[Chat(j)].files
                /\ tally'[j] = tally[j]
          /\ pc[j] \in {"refetch", "download"} =>
                /\ ReportsPageAtHand(j, Last(status[j]))
                /\ Len(ProgressTexts(j)) =
                        Len(w[j].downloaded_page_paths) + tally[j].skipped + 1]_vars

\* C17's case: the progress of the third page was shown and its download then
\* failed; the job is over with two pages fetched.
C17_Witness ==
    \E j \in Jobs :
        /\ pc[j] = "done" /\ w[j].e = "image"
        /\ Len(w[j].downloaded_page_paths) = 2
        /\ Last(ProgressTexts(j))[5] = 3

\* The cursor (from 0) at which a sealed container of job j started: the place
\* of its first file in the list of fetched pages.
StartCursor(j, part) ==
    (CHOOSE k \in 1..Len(w[j].downloaded_page_paths) :
        w[j].downloaded_page_paths[k] = part.files[1]) - 1

\* C18: termination of the packer.  Each container starts at a cursor strictly
\* greater than the one the container before it started at (the container
\* about to be opened included), so a job never seals more containers than it
\* has fetched pages and its packing loop comes to an end.
C18_PackerEnds ==
    \A j \in Jobs :
        /\ \A k \in 1..(Len(sealed[j]) - 1) :
              StartCursor(j, sealed[j][k + 1]) > StartCursor(j, sealed[j][k])
        /\ (pc[j] \in {"creating_edit", "open_zip"} /\ sealed[j] # <<>>) =>
              w[j].page_index > StartCursor(j, Last(sealed[j]))
        /\ Len(sealed[j]) <= Len(w[j].downloaded_page_paths)

\* The packer going round: as many containers as MaxParts allows were sealed
\* and uploaded from two fetched pages, each starting at cursor 0.
C18_Loop ==
    \E j \in Jobs :
        /\ Len(w[j].downloaded_page_paths) = 2
        /\ Len(documents[j]) = MaxParts
        /\ \A k \in 1..MaxParts : StartCursor(j, sealed[j][k]) = 0
        /\ pc[j] = "pack" /\ OuterCond(w[j])

\* Scratch file n is a page job o has fetched and has yet to pack.
FetchedNotPacked(o, n) ==
    /\ pc[o] \in {"fetch", "progress_edit", "refetch", "download", "fetched",
                  "pack", "creating_edit", "open_zip", "zip"}
    /\ n \in DOMAIN temp[Chat(o)].files
    /\ temp[Chat(o)].files[n].owner = o
    /\ \E k \in (w[o].page_index + 1)..Len(w[o].downloaded_page_paths) :
          w[o].downloaded_page_paths[k] = n

\* Every file job j has placed in a container holds bytes j downloaded.
OwnBytesPacked(j) ==
    /\ \A k \in 1..Len(sealed[j]) : \A m \in 1..Len(sealed[j][k].entries) :
          sealed[j][k].entries[m].data.owner = j
    /\ \A f \in OwnCbz(j) : \A m \in 1..Len(cbz[f].entries) :
          cbz[f].entries[m].data.owner = j

\* C19: scratch isolation of jobs of one chat.  When the two jobs are of the
\* same chat, no step of a job deletes or overwrites a scratch file that the
\* other job has fetched and has yet to pack, and every file a job places in
\* a container holds bytes that this job downloaded.
C19_ScratchIsolation ==
    [][Chat(1) = Chat(2) =>
          /\ \A o \in Jobs : \A n \in DOMAIN temp[Chat(o)].files :
                (o # actor' /\ FetchedNotPacked(o, n)) =>
                    /\ n \in DOMAIN temp'[Chat(o)].files
                    /\ temp'[Chat(o)].files[n] = temp[Chat(o)].files[n]
          /\ \A j \in Jobs : OwnBytesPacked(j)']_vars

\* Job j has sent its permanent completion notice (line 279).
CompletionSent(j) == \E k \in 1..Len(notices[j]) : notices[j][k][1] = "complete"

\* Job j has reported an error on its status message (lines 202, 237, 284) or
\* by the handler's message (line 285).
ErrorReported(j) ==
    \/ TerminalTexts(j) # <<>>
    \/ \E k \in 1..Len(notices[j]) : notices[j][k][1] = "try_again"

\* C20: the terminal outcomes exclude each other.  No job has both sent its
\* completion notice and reported an error, whatever call failed.
C20_ExclusiveOutcomes ==
    \A j \in Jobs : ~(CompletionSent(j) /\ ErrorReported(j))

====
